---- MODULE Spec2Model ----
(***************************************************************************)
(* The glyph-preview session of cicero-tui: CharacterPreview               *)
(* (src/preview/character_preview.rs) and the canvas that owns and paints  *)
(* it, CharacterPreviewCanvas (src/tui/character_preview_canvas.rs).       *)
(*                                                                         *)
(* Indices are 0-based as in the Rust code; a TLA+ sequence is 1-based, so *)
(* the item at index i of a vector v is v[i + 1].                          *)
(***************************************************************************)
EXTENDS Integers, Sequences, FiniteSets, TLC

VARIABLES
    character_preview,  \* CharacterPreviewCanvas.character_preview : Result<CharacterPreview>
    ret,                \* what the last call returned and which backend calls it made
    frame,              \* what the last draw_character_preview or render produced
    trail               \* what the callers of the last two select_*_font calls saw

vars == <<character_preview, ret, frame, trail>>

----------------------------------------------------------------------------
(* Bounds of the model and the small input sets.                           *)

MaxFonts == 3           \* longest candidate list fonts_for returns

FontPaths == {"a.ttf", "b.ttf", "c.otf"}

Chars == {"x", "y"}

MaxRectCells == 5       \* widest / tallest drawable rectangle, in cells

MaxBitmapDim == 3       \* widest / tallest bitmap the font backend returns

MaxRenderDim == 2       \* widest / tallest size of a direct render call

PitchPads == {0, 1}     \* padding bytes at the end of a bitmap row

RECURSIVE SeqsUpTo(_, _)
SeqsUpTo(S, n) ==
    IF n = 0 THEN {<< >>}
    ELSE LET shorter == SeqsUpTo(S, n - 1)
         IN  shorter \cup {Append(s, e) : s \in {t \in shorter : Len(t) = n - 1}, e \in S}

----------------------------------------------------------------------------
(* Option<T>::None for an index, for a path and for a face.                *)

None == -1

NoPath == "<none>"

NoFace == [path |-> NoPath, face_index |-> None]

NoLibrary == 0

----------------------------------------------------------------------------
(* The font backend (freetype) as the code uses it.                        *)

\* Library::init(): the handle of a fresh backend session.
Library_init == 1

\* library.new_face(path, 0): the face of the file at `path`, first sub-font.
new_face(library, path, face_index) == [path |-> path, face_index |-> face_index]

\* Face::family_name() / Face::style_name(): what the font file reports; the
\* file c.otf reports neither, and a.ttf / b.ttf differ in both.
family_name(face) ==
    CASE face.path = "a.ttf" -> "Alpha"
      [] face.path = "b.ttf" -> "Beta"
      [] OTHER -> NoPath

style_name(face) ==
    CASE face.path = "a.ttf" -> "Regular"
      [] face.path = "b.ttf" -> "Bold"
      [] OTHER -> NoPath

----------------------------------------------------------------------------
(* StatefulVec<T>: an ordered sequence with one cursor.                    *)

StatefulVec_new(items, initial_index) ==
    [items |-> items,
     current_index |-> IF initial_index # None /\ initial_index >= 0
                          /\ initial_index < Len(items)
                       THEN initial_index ELSE None]

\* Index of the first item equal to target, None when there is none.
position(items, target) ==
    IF \E i \in 1..Len(items) : items[i] = target
    THEN (CHOOSE i \in 1..Len(items) :
              /\ items[i] = target
              /\ \A j \in 1..(i - 1) : items[j] # target) - 1
    ELSE None

select_if_found(v, target) ==
    IF position(v.items, target) # None
    THEN [v EXCEPT !.current_index = position(v.items, target)]
    ELSE v

current_item(v) ==
    IF v.current_index = None THEN NoPath ELSE v.items[v.current_index + 1]

has_previous(v) == v.current_index # None /\ v.current_index > 0

has_next(v) == v.current_index # None /\ v.current_index + 1 < Len(v.items)

\* select_previous without the has_previous() test.
select_previous_unbounded(v) == [v EXCEPT !.current_index = @ - 1]

select_previous(v) ==
    IF has_previous(v) THEN [v EXCEPT !.current_index = @ - 1] ELSE v

select_next(v) ==
    IF has_next(v) THEN [v EXCEPT !.current_index = @ + 1] ELSE v

----------------------------------------------------------------------------
(* CharacterPreview                                                        *)

NoSession ==
    [chr |-> "", paths_for_matching_fonts |-> StatefulVec_new(<< >>, None),
     library |-> NoLibrary, current_font |-> NoFace]

\* What a call on the session hands back: the Result (tag "Ok", or tag "Err"
\* with the error), the session as the call leaves it, and the backend calls it
\* made: Library::init calls, new_face calls, and new_face calls that failed.
Ok(value, inits, loads) ==
    [tag |-> "Ok", value |-> value, error |-> "",
     lib_inits |-> inits, face_loads |-> loads, loads_failed |-> 0]

Err(value, error, inits, loads, failed) ==
    [tag |-> "Err", value |-> value, error |-> error,
     lib_inits |-> inits, face_loads |-> loads, loads_failed |-> failed]

\* fonts_for(chr): every ordered list of at most MaxFonts paths.
FontsForOutcomes == SeqsUpTo(FontPaths, MaxFonts)

\* preferred_font_path: Option<&String>
Preferences == FontPaths \cup {NoPath}

\* CharacterPreview::new without its is_empty() check.
CharacterPreview_new_unchecked(chr, preferred_font_path, matcher_ok, fonts, lib_ok, load_ok) ==
    IF ~matcher_ok THEN Err(NoSession, "FontMatchError", 0, 0, 0)
    ELSE
      LET v0 == StatefulVec_new(fonts, 0)
          v  == IF preferred_font_path # NoPath
                THEN select_if_found(v0, preferred_font_path) ELSE v0
      IN  IF ~lib_ok THEN Err(NoSession, "LibraryInitError", 1, 0, 0)
          ELSE IF current_item(v) = NoPath THEN Err(NoSession, "panic", 1, 0, 0)
          ELSE IF ~load_ok THEN Err(NoSession, "FontLoadError", 1, 1, 1)
          ELSE Ok([chr |-> chr, paths_for_matching_fonts |-> v,
                   library |-> Library_init,
                   current_font |-> new_face(Library_init, current_item(v), 0)], 1, 1)

\* CharacterPreview::new without the select_if_found call.
CharacterPreview_new_first(chr, preferred_font_path, matcher_ok, fonts, lib_ok, load_ok) ==
    IF ~matcher_ok THEN Err(NoSession, "FontMatchError", 0, 0, 0)
    ELSE IF Len(fonts) = 0 THEN Err(NoSession, "GlyphNotFound", 0, 0, 0)
    ELSE
      LET v == StatefulVec_new(fonts, 0)
      IN  IF ~lib_ok THEN Err(NoSession, "LibraryInitError", 1, 0, 0)
          ELSE IF current_item(v) = NoPath THEN Err(NoSession, "panic", 1, 0, 0)
          ELSE IF ~load_ok THEN Err(NoSession, "FontLoadError", 1, 1, 1)
          ELSE Ok([chr |-> chr, paths_for_matching_fonts |-> v,
                   library |-> Library_init,
                   current_font |-> new_face(Library_init, current_item(v), 0)], 1, 1)

\* CharacterPreview::new(chr, preferred_font_path).  matcher_ok and fonts are
\* what fonts_for(chr) returned, lib_ok and load_ok the outcomes of
\* Library::init() and of library.new_face().
CharacterPreview_new(chr, preferred_font_path, matcher_ok, fonts, lib_ok, load_ok) ==
    IF ~matcher_ok THEN Err(NoSession, "FontMatchError", 0, 0, 0)
    ELSE IF Len(fonts) = 0 THEN Err(NoSession, "GlyphNotFound", 0, 0, 0)
    ELSE
      LET v0 == StatefulVec_new(fonts, 0)
          v  == IF preferred_font_path # NoPath
                THEN select_if_found(v0, preferred_font_path) ELSE v0
      IN  IF ~lib_ok THEN Err(NoSession, "LibraryInitError", 1, 0, 0)
          ELSE IF current_item(v) = NoPath THEN Err(NoSession, "panic", 1, 0, 0)
          ELSE IF ~load_ok THEN Err(NoSession, "FontLoadError", 1, 1, 1)
          ELSE Ok([chr |-> chr, paths_for_matching_fonts |-> v,
                   library |-> Library_init,
                   current_font |-> new_face(Library_init, current_item(v), 0)], 1, 1)

get_current_font_path(self) == current_item(self.paths_for_matching_fonts)

has_previous_font(self) == has_previous(self.paths_for_matching_fonts)

has_next_font(self) == has_next(self.paths_for_matching_fonts)

\* select_previous_font moving the cursor forward (the body of select_next_font).
select_previous_font_forward(self, load_ok) ==
    LET moved == [self EXCEPT !.paths_for_matching_fonts = select_next(@)]
        path  == current_item(moved.paths_for_matching_fonts)
    IN  IF path = NoPath THEN Err(moved, "GlyphNotFound", 0, 0, 0)
        ELSE IF ~load_ok THEN Err(moved, "FontLoadError", 0, 1, 1)
        ELSE Ok([moved EXCEPT !.current_font = new_face(self.library, path, 0)], 0, 1)

\* select_previous_font putting the cursor back when the load fails.
select_previous_font_rollback(self, load_ok) ==
    LET moved == [self EXCEPT !.paths_for_matching_fonts = select_previous(@)]
        path  == current_item(moved.paths_for_matching_fonts)
    IN  IF path = NoPath THEN Err(self, "GlyphNotFound", 0, 0, 0)
        ELSE IF ~load_ok THEN Err(self, "FontLoadError", 0, 1, 1)
        ELSE Ok([moved EXCEPT !.current_font = new_face(self.library, path, 0)], 0, 1)

\* select_previous_font(&mut self): the cursor moves first; `?` returns before
\* the assignment to self.current_font when new_face fails.
select_previous_font(self, load_ok) ==
    LET moved == [self EXCEPT !.paths_for_matching_fonts = select_previous(@)]
        path  == current_item(moved.paths_for_matching_fonts)
    IN  IF path = NoPath THEN Err(moved, "GlyphNotFound", 0, 0, 0)
        ELSE IF ~load_ok THEN Err(moved, "FontLoadError", 0, 1, 1)
        ELSE Ok([moved EXCEPT !.current_font = new_face(self.library, path, 0)], 0, 1)

\* select_next_font putting the cursor back when the load fails.
select_next_font_rollback(self, load_ok) ==
    LET moved == [self EXCEPT !.paths_for_matching_fonts = select_next(@)]
        path  == current_item(moved.paths_for_matching_fonts)
    IN  IF path = NoPath THEN Err(self, "GlyphNotFound", 0, 0, 0)
        ELSE IF ~load_ok THEN Err(self, "FontLoadError", 0, 1, 1)
        ELSE Ok([moved EXCEPT !.current_font = new_face(self.library, path, 0)], 0, 1)

\* select_next_font opening a second backend session for the face it loads.
select_next_font_reinit(self, load_ok) ==
    LET moved == [self EXCEPT !.paths_for_matching_fonts = select_next(@),
                              !.library = Library_init + 1]
        path  == current_item(moved.paths_for_matching_fonts)
    IN  IF path = NoPath THEN Err(moved, "GlyphNotFound", 0, 0, 0)
        ELSE IF ~load_ok THEN Err(moved, "FontLoadError", 0, 1, 1)
        ELSE Ok([moved EXCEPT !.current_font = new_face(moved.library, path, 0)], 0, 1)

\* select_next_font dropping the old face before the new one is loaded.
select_next_font_clobber(self, load_ok) ==
    LET moved == [self EXCEPT !.paths_for_matching_fonts = select_next(@)]
        path  == current_item(moved.paths_for_matching_fonts)
    IN  IF path = NoPath THEN Err(moved, "GlyphNotFound", 0, 0, 0)
        ELSE IF ~load_ok
        THEN Err([moved EXCEPT !.current_font = NoFace], "FontLoadError", 0, 1, 1)
        ELSE Ok([moved EXCEPT !.current_font = new_face(self.library, path, 0)], 0, 1)

\* select_next_font(&mut self), the same with select_next.
select_next_font(self, load_ok) ==
    LET moved == [self EXCEPT !.paths_for_matching_fonts = select_next(@)]
        path  == current_item(moved.paths_for_matching_fonts)
    IN  IF path = NoPath THEN Err(moved, "GlyphNotFound", 0, 0, 0)
        ELSE IF ~load_ok THEN Err(moved, "FontLoadError", 0, 1, 1)
        ELSE Ok([moved EXCEPT !.current_font = new_face(self.library, path, 0)], 0, 1)

get_current_font_display_name(self) ==
    LET family == IF family_name(self.current_font) = NoPath
                  THEN "Unknown Family" ELSE family_name(self.current_font)
        style  == IF style_name(self.current_font) = NoPath
                  THEN "Unknown Style" ELSE style_name(self.current_font)
    IN  family \o " - " \o style

----------------------------------------------------------------------------
(* Rasterizing: what the backend hands to render, and render itself.       *)

RenderSize_new(width, height) == [width |-> width, height |-> height]

min(a, b) == IF a < b THEN a ELSE b

\* The coverage byte the backend stores at 0-based offset k of a buffer whose
\* rows are `pitch` bytes long and hold `width` pixels each.  "ramp" gives every
\* offset its own nonzero byte, "checker" alternates 255 and 0.
PatternByte(pattern, k, width, pitch) ==
    LET x == k % pitch
        y == k \div pitch
    IN  CASE pattern = "ramp" -> (k % 255) + 1
          [] pattern = "checker" -> IF x < width /\ (x + y) % 2 = 0 THEN 255 ELSE 0
          [] OTHER -> 0

Patterns == {"ramp", "checker"}

\* glyph().bitmap(): width(), rows() and buffer(), whose length is rows * pitch.
GlyphBitmap(width, rows, pitch, pattern) ==
    [width |-> width, rows |-> rows, pitch |-> pitch,
     buffer |-> [k \in 1..(rows * pitch) |-> PatternByte(pattern, k - 1, width, pitch)]]

NoBitmap == GlyphBitmap(0, 0, 0, "ramp")

\* What the backend does in one render call: set_pixel_sizes fails, load_char
\* fails, or the glyph slot holds a bitmap.
NoBackend == [status |-> "NotCalled", glyph_bitmap |-> NoBitmap]

BackendOutcomes ==
    {[status |-> "SetPixelSizesError", glyph_bitmap |-> NoBitmap],
     [status |-> "LoadCharError", glyph_bitmap |-> NoBitmap]}
    \cup
    {[status |-> "Ok", glyph_bitmap |-> GlyphBitmap(w, r, w + pad, pattern)] :
        w \in 0..MaxBitmapDim, r \in 0..MaxBitmapDim, pad \in PitchPads,
        pattern \in Patterns}

NoRendered == [bitmap |-> << >>, glyph_size |-> RenderSize_new(0, 0)]

\* x_max without the min.
x_max_unclipped(size, glyph_bitmap) == glyph_bitmap.width

\* let x_max = min(size.width, glyph_bitmap.width() as usize);
x_max(size, glyph_bitmap) == min(size.width, glyph_bitmap.width)

\* let y_max = min(size.height, glyph_bitmap.rows() as usize);
y_max(size, glyph_bitmap) == min(size.height, glyph_bitmap.rows)

\* render allocating the grid at the glyph's clipped size, not at `size`.
render_glyph_sized(self, size, backend) ==
    IF backend.status # "Ok"
    THEN [tag |-> "Err", error |-> backend.status, value |-> NoRendered]
    ELSE
      LET glyph_bitmap == backend.glyph_bitmap
          xm == x_max(size, glyph_bitmap)
          ym == y_max(size, glyph_bitmap)
          pixels == [y \in 1..ym |->
                       [x \in 1..xm |-> glyph_bitmap.buffer[(y - 1) * xm + (x - 1) + 1]]]
      IN  [tag |-> "Ok", error |-> "",
           value |-> [bitmap |-> pixels, glyph_size |-> RenderSize_new(xm, ym)]]

\* CharacterPreview::render(&self, size): a Result<RenderedCharacter>.  bitmap is
\* the rows of the grid, top row first; glyph_bitmap_buffer[i] is buffer[i + 1],
\* and an index past the end of the buffer panics.
render(self, size, backend) ==
    IF backend.status # "Ok"
    THEN [tag |-> "Err", error |-> backend.status, value |-> NoRendered]
    ELSE
      LET glyph_bitmap == backend.glyph_bitmap
          xm == x_max(size, glyph_bitmap)
          ym == y_max(size, glyph_bitmap)
          glyph_bitmap_buffer == glyph_bitmap.buffer
          pixels == [y \in 1..size.height |->
                       [x \in 1..size.width |->
                          IF x - 1 < xm /\ y - 1 < ym
                          THEN glyph_bitmap_buffer[(y - 1) * xm + (x - 1) + 1]
                          ELSE 0]]
      IN  IF xm > 0 /\ ym > 0 /\ xm * ym > Len(glyph_bitmap_buffer)
          THEN [tag |-> "Err", error |-> "panic", value |-> NoRendered]
          ELSE [tag |-> "Ok", error |-> "",
                value |-> [bitmap |-> pixels, glyph_size |-> RenderSize_new(xm, ym)]]

----------------------------------------------------------------------------
(* Painting                                                                *)

BRAILLE_PATTERN_DOTS_PER_CELL_HORIZONTAL == 2

BRAILLE_PATTERN_DOTS_PER_CELL_VERTICAL == 4

RENDER_PADDING_IN_CELLS == 4

U16 == 65536

Rects == {[width |-> w, height |-> h] :
             w \in (RENDER_PADDING_IN_CELLS - 1)..MaxRectCells,
             h \in (RENDER_PADDING_IN_CELLS - 1)..MaxRectCells}

\* Rectangles of u16 cell counts around the first width and the first height
\* whose pixel count no longer fits a u16 (never both dimensions large at once,
\* which would make the render target tens of thousands of pixels wide).
FirstWideWidth == U16 \div BRAILLE_PATTERN_DOTS_PER_CELL_HORIZONTAL + RENDER_PADDING_IN_CELLS

FirstTallHeight == U16 \div BRAILLE_PATTERN_DOTS_PER_CELL_VERTICAL + RENDER_PADDING_IN_CELLS

U16Rects ==
    {[width |-> w, height |-> h] :
        w \in {RENDER_PADDING_IN_CELLS + 1,
               FirstWideWidth - 1, FirstWideWidth, FirstWideWidth + 1},
        h \in {RENDER_PADDING_IN_CELLS - 1, RENDER_PADDING_IN_CELLS + 1, FirstTallHeight}}

RenderSizes == {RenderSize_new(w, h) : w \in 0..MaxRenderDim, h \in 0..MaxRenderDim}

\* CharacterPreviewShape::draw: one dot per nonzero pixel of the whole grid.
CharacterPreviewShape_draw(rendered_character, x_padding, y_padding) ==
    IF Len(rendered_character.bitmap) = 0 THEN {}
    ELSE {<<p[1] + x_padding, p[2] + y_padding>> :
            p \in {q \in (0..(Len(rendered_character.bitmap[1]) - 1))
                           \X (0..(Len(rendered_character.bitmap) - 1)) :
                      rendered_character.bitmap[q[2] + 1][q[1] + 1] # 0}}

\* ToufuShape::draw: every dot of the size.width x size.height square.
ToufuShape_draw(size, x_padding, y_padding) ==
    {<<p[1] + x_padding, p[2] + y_padding>> :
        p \in (0..(size.width - 1)) \X (0..(size.height - 1))}

\* What one draw_character_preview painted: the shape handed to ctx.draw, the
\* sizes and paddings it was computed from, the dots it asked the painter for,
\* and what the backend and render returned.
Painted(shape, canvas, target, glyph, xpad, ypad, dots, rendered, backend) ==
    [shape |-> shape, canvas_pixel_size |-> canvas, render_pixel_size |-> target,
     glyph_size |-> glyph, x_padding |-> xpad, y_padding |-> ypad, dots |-> dots,
     rendered_character |-> rendered, backend |-> backend]

NoFrame ==
    Painted("none", RenderSize_new(0, 0), RenderSize_new(0, 0), RenderSize_new(0, 0),
            0, 0, {}, NoRendered, NoBackend)

\* Whether one of the two u16 multiplications of canvas_pixel_size exceeds u16.
mul_overflows(rect) ==
    \/ (rect.width - RENDER_PADDING_IN_CELLS) * BRAILLE_PATTERN_DOTS_PER_CELL_HORIZONTAL >= U16
    \/ (rect.height - RENDER_PADDING_IN_CELLS) * BRAILLE_PATTERN_DOTS_PER_CELL_VERTICAL >= U16

\* let canvas_pixel_size = ...: u16 arithmetic, which wraps in a release build.
canvas_pixel_size(rect) ==
    RenderSize_new(
        ((rect.width - RENDER_PADDING_IN_CELLS)
            * BRAILLE_PATTERN_DOTS_PER_CELL_HORIZONTAL) % U16,
        ((rect.height - RENDER_PADDING_IN_CELLS)
            * BRAILLE_PATTERN_DOTS_PER_CELL_VERTICAL) % U16)

\* render_pixel_size as the square of the larger canvas dimension.
render_pixel_size_larger(rect) ==
    LET render_pixel_length ==
            IF canvas_pixel_size(rect).width > canvas_pixel_size(rect).height
            THEN canvas_pixel_size(rect).width ELSE canvas_pixel_size(rect).height
    IN  RenderSize_new(render_pixel_length, render_pixel_length)

\* let render_pixel_size = ...: the square of the smaller canvas dimension.
render_pixel_size(rect) ==
    LET render_pixel_length ==
            min(canvas_pixel_size(rect).width, canvas_pixel_size(rect).height)
    IN  RenderSize_new(render_pixel_length, render_pixel_length)

\* The two Err arms of the match: the tofu of the render target's size.
draw_tofu(canvas, target, backend) ==
    LET x_padding == (canvas.width - target.width) \div 2
        y_padding == (canvas.height - target.height) \div 2
    IN  IF canvas.width < target.width \/ canvas.height < target.height
        THEN Painted("overflow", canvas, target, RenderSize_new(0, 0), 0, 0, {},
                     NoRendered, backend)
        ELSE Painted("tofu", canvas, target, RenderSize_new(0, 0), x_padding, y_padding,
                     ToufuShape_draw(target, x_padding, y_padding), NoRendered, backend)

\* The Ok arm centring by the render target's size, as the tofu arms do.
draw_glyph_target_centred(canvas, target, rendered_character, backend) ==
    LET glyph_size == rendered_character.glyph_size
        x_padding == (canvas.width - target.width) \div 2
        y_padding == (canvas.height - target.height) \div 2
    IN  IF canvas.width < glyph_size.width \/ canvas.height < glyph_size.height
        THEN Painted("overflow", canvas, target, glyph_size, 0, 0, {},
                     rendered_character, backend)
        ELSE Painted("glyph", canvas, target, glyph_size, x_padding, y_padding,
                     CharacterPreviewShape_draw(rendered_character, x_padding, y_padding),
                     rendered_character, backend)

\* The Ok(rendered_character) arm of the match: the glyph, centred by its
\* clipped size.  A usize subtraction below zero panics or wraps by the build:
\* shape "overflow".
draw_glyph(canvas, target, rendered_character, backend) ==
    LET glyph_size == rendered_character.glyph_size
        x_padding == (canvas.width - glyph_size.width) \div 2
        y_padding == (canvas.height - glyph_size.height) \div 2
    IN  IF canvas.width < glyph_size.width \/ canvas.height < glyph_size.height
        THEN Painted("overflow", canvas, target, glyph_size, 0, 0, {},
                     rendered_character, backend)
        ELSE Painted("glyph", canvas, target, glyph_size, x_padding, y_padding,
                     CharacterPreviewShape_draw(rendered_character, x_padding, y_padding),
                     rendered_character, backend)

\* draw_character_preview painting the (empty) render result on a render error.
draw_character_preview_glyph_on_error(preview, rect, backend, overflow_checks) ==
    IF rect.width < RENDER_PADDING_IN_CELLS \/ rect.height < RENDER_PADDING_IN_CELLS
    THEN NoFrame
    ELSE IF overflow_checks /\ mul_overflows(rect)
    THEN Painted("mul_overflow", canvas_pixel_size(rect), render_pixel_size(rect),
                 RenderSize_new(0, 0), 0, 0, {}, NoRendered, NoBackend)
    ELSE IF preview.tag # "Ok"
    THEN draw_tofu(canvas_pixel_size(rect), render_pixel_size(rect), NoBackend)
    ELSE
      LET r == render(preview.value, render_pixel_size(rect), backend)
      IN  IF r.tag = "Err" /\ r.error = "panic"
          THEN Painted("panic", canvas_pixel_size(rect), render_pixel_size(rect),
                       RenderSize_new(0, 0), 0, 0, {}, NoRendered, backend)
          ELSE draw_glyph(canvas_pixel_size(rect), render_pixel_size(rect), r.value, backend)

\* CharacterPreviewCanvas::draw_character_preview(rect), preview being the
\* canvas's character_preview field and backend what freetype does in render
\* (render is called only when the canvas holds a session).  The u16
\* multiplications wrap in a build without overflow checks (canvas_pixel_size)
\* and panic in one with them (overflow_checks): shape "mul_overflow".
draw_character_preview(preview, rect, backend, overflow_checks) ==
    IF rect.width < RENDER_PADDING_IN_CELLS \/ rect.height < RENDER_PADDING_IN_CELLS
    THEN NoFrame
    ELSE IF overflow_checks /\ mul_overflows(rect)
    THEN Painted("mul_overflow", canvas_pixel_size(rect), render_pixel_size(rect),
                 RenderSize_new(0, 0), 0, 0, {}, NoRendered, NoBackend)
    ELSE IF preview.tag # "Ok"
    THEN draw_tofu(canvas_pixel_size(rect), render_pixel_size(rect), NoBackend)
    ELSE
      LET r == render(preview.value, render_pixel_size(rect), backend)
      IN  IF r.tag = "Err" /\ r.error = "panic"
          THEN Painted("panic", canvas_pixel_size(rect), render_pixel_size(rect),
                       RenderSize_new(0, 0), 0, 0, {}, NoRendered, backend)
          ELSE IF r.tag = "Err"
          THEN draw_tofu(canvas_pixel_size(rect), render_pixel_size(rect), backend)
          ELSE draw_glyph(canvas_pixel_size(rect), render_pixel_size(rect), r.value, backend)

----------------------------------------------------------------------------
(* State                                                                   *)

NoArgs ==
    [chr |-> "", preferred_font_path |-> NoPath, matcher_ok |-> TRUE, fonts |-> << >>,
     rect |-> [width |-> 0, height |-> 0]]

NoCall ==
    [op |-> "none", args |-> NoArgs, tag |-> "Ok", error |-> "",
     lib_inits |-> 0, face_loads |-> 0, loads_failed |-> 0]

\* The record of a call `op` that returned r.
Returned(op, args, r) ==
    [op |-> op, args |-> args, tag |-> r.tag, error |-> r.error,
     lib_inits |-> r.lib_inits, face_loads |-> r.face_loads,
     loads_failed |-> r.loads_failed]

Unconstructed == [tag |-> "Unconstructed", value |-> NoSession, error |-> ""]

\* What a caller of the session method `op` saw just before the call.
Seen(op, self) ==
    [op |-> op,
     index |-> self.paths_for_matching_fonts.current_index,
     display_name |-> get_current_font_display_name(self)]

\* The trail with one more entry, the oldest dropped beyond two.
Trailed(t, entry) == IF Len(t) < 2 THEN Append(t, entry) ELSE <<t[2], entry>>

Init ==
    /\ character_preview = Unconstructed
    /\ ret = NoCall
    /\ frame = NoFrame
    /\ trail = << >>

\* The session the canvas holds (meaningful when the tag is "Ok").
session == character_preview.value

----------------------------------------------------------------------------
(* Operations                                                              *)

\* CharacterPreviewCanvas::new: the canvas keeps whatever CharacterPreview::new
\* returned.
CharacterPreviewCanvas_new ==
    /\ character_preview.tag = "Unconstructed"
    /\ \E chr \in Chars, preferred \in Preferences, matcher_ok \in BOOLEAN,
          fonts \in FontsForOutcomes, lib_ok \in BOOLEAN, load_ok \in BOOLEAN :
         LET r == CharacterPreview_new(chr, preferred, matcher_ok,
                                       IF matcher_ok THEN fonts ELSE << >>, lib_ok, load_ok)
         IN  /\ character_preview' = [tag |-> r.tag, value |-> r.value, error |-> r.error]
             /\ ret' = Returned("new",
                                [chr |-> chr, preferred_font_path |-> preferred,
                                 matcher_ok |-> matcher_ok,
                                 fonts |-> IF matcher_ok THEN fonts ELSE << >>,
                                 rect |-> NoArgs.rect], r)
    /\ frame' = NoFrame
    /\ trail' = << >>

\* A direct call of CharacterPreview::select_previous_font on the session.
SelectPreviousFont ==
    /\ character_preview.tag = "Ok"
    /\ \E load_ok \in BOOLEAN :
         LET r == select_previous_font(session, load_ok)
         IN  /\ character_preview' = [character_preview EXCEPT !.value = r.value]
             /\ ret' = Returned("select_previous_font", NoArgs, r)
    /\ frame' = NoFrame
    /\ trail' = Trailed(trail, Seen("select_previous_font", session))

\* A direct call of CharacterPreview::select_next_font on the session.
SelectNextFont ==
    /\ character_preview.tag = "Ok"
    /\ \E load_ok \in BOOLEAN :
         LET r == select_next_font(session, load_ok)
         IN  /\ character_preview' = [character_preview EXCEPT !.value = r.value]
             /\ ret' = Returned("select_next_font", NoArgs, r)
    /\ frame' = NoFrame
    /\ trail' = Trailed(trail, Seen("select_next_font", session))

\* previous_preview_font keeping the Result: a failed switch ends the session.
PreviousPreviewFont_terminating ==
    /\ character_preview.tag # "Unconstructed"
    /\ \/ /\ character_preview.tag = "Ok"
          /\ \E load_ok \in BOOLEAN :
               LET r == select_previous_font(session, load_ok)
               IN  /\ character_preview' =
                          IF r.tag = "Ok"
                          THEN [character_preview EXCEPT !.value = r.value]
                          ELSE [tag |-> "Err", value |-> NoSession, error |-> r.error]
                   /\ ret' = [Returned("previous_preview_font", NoArgs, r)
                                 EXCEPT !.tag = "Ok", !.error = ""]
          /\ trail' = Trailed(trail, Seen("select_previous_font", session))
       \/ /\ character_preview.tag = "Err"
          /\ character_preview' = character_preview
          /\ ret' = [NoCall EXCEPT !.op = "previous_preview_font"]
          /\ trail' = trail
    /\ frame' = NoFrame

\* CharacterPreviewCanvas::previous_preview_font: the Result is dropped.
PreviousPreviewFont ==
    /\ character_preview.tag # "Unconstructed"
    /\ \/ /\ character_preview.tag = "Ok"
          /\ \E load_ok \in BOOLEAN :
               LET r == select_previous_font(session, load_ok)
               IN  /\ character_preview' = [character_preview EXCEPT !.value = r.value]
                   /\ ret' = [Returned("previous_preview_font", NoArgs, r)
                                 EXCEPT !.tag = "Ok", !.error = ""]
          /\ trail' = Trailed(trail, Seen("select_previous_font", session))
       \/ /\ character_preview.tag = "Err"
          /\ character_preview' = character_preview
          /\ ret' = [NoCall EXCEPT !.op = "previous_preview_font"]
          /\ trail' = trail
    /\ frame' = NoFrame

\* CharacterPreviewCanvas::next_preview_font: the Result is dropped.
NextPreviewFont ==
    /\ character_preview.tag # "Unconstructed"
    /\ \/ /\ character_preview.tag = "Ok"
          /\ \E load_ok \in BOOLEAN :
               LET r == select_next_font(session, load_ok)
               IN  /\ character_preview' = [character_preview EXCEPT !.value = r.value]
                   /\ ret' = [Returned("next_preview_font", NoArgs, r)
                                 EXCEPT !.tag = "Ok", !.error = ""]
          /\ trail' = Trailed(trail, Seen("select_next_font", session))
       \/ /\ character_preview.tag = "Err"
          /\ character_preview' = character_preview
          /\ ret' = [NoCall EXCEPT !.op = "next_preview_font"]
          /\ trail' = trail
    /\ frame' = NoFrame

\* CharacterPreviewCanvas::draw_character_preview on some rectangle; it returns
\* nothing and borrows the canvas's session for the render call.  The build's
\* overflow checks are a choice only where a multiplication overflows.
DrawCharacterPreviewOf(rects) ==
    /\ character_preview.tag # "Unconstructed"
    /\ \E rect \in rects, backend \in BackendOutcomes :
       \E overflow_checks \in (IF mul_overflows(rect) THEN BOOLEAN ELSE {FALSE}) :
         /\ frame' = draw_character_preview(character_preview, rect, backend,
                                            overflow_checks)
         /\ ret' = [NoCall EXCEPT !.op = "draw_character_preview", !.args.rect = rect]
    /\ character_preview' = character_preview
    /\ trail' = trail

DrawCharacterPreview == DrawCharacterPreviewOf(Rects)

\* A direct call of CharacterPreview::render on the session, with any size.
RenderOf(sizes, backends) ==
    /\ character_preview.tag = "Ok"
    /\ \E size \in sizes, backend \in backends :
         LET r == render(session, size, backend)
         IN  /\ frame' = Painted(IF r.tag = "Ok" THEN "rendered" ELSE "render_failed",
                                 RenderSize_new(0, 0), size, r.value.glyph_size,
                                 0, 0, {}, r.value, backend)
             /\ ret' = [NoCall EXCEPT !.op = "render", !.tag = r.tag, !.error = r.error]
    /\ character_preview' = character_preview
    /\ trail' = trail

Render == RenderOf(RenderSizes, BackendOutcomes)

\* The session's life: construction, then font switching in any order.
Next ==
    \/ CharacterPreviewCanvas_new
    \/ SelectPreviousFont
    \/ SelectNextFont
    \/ PreviousPreviewFont
    \/ NextPreviewFont

Spec == Init /\ [][Next]_vars

\* The backend outcomes on a glyph of at most one pixel.
OnePixelBackendOutcomes ==
    {b \in BackendOutcomes :
        b.status = "Ok" => (b.glyph_bitmap.width <= 1 /\ b.glyph_bitmap.rows <= 1
                              /\ b.glyph_bitmap.pitch = b.glyph_bitmap.width)}

\* The session's life with rasterizing in between: construction, font
\* switching, and render calls of a one-pixel target.
NextSession ==
    \/ Next
    \/ RenderOf({RenderSize_new(1, 1)}, OnePixelBackendOutcomes)

SpecSession == Init /\ [][NextSession]_vars

\* Redrawing.  draw_character_preview and render read of the canvas only
\* whether it holds a session, and of the session only chr and current_font,
\* which decide nothing but what the backend returns; so the redraws start
\* from the canvases CharacterPreviewCanvas::new builds for a character with no
\* candidate font or with the one candidate a.ttf, every outcome of the
\* construction included.
InitDraw ==
    /\ \E chr \in Chars, fonts \in {<< >>, <<"a.ttf">>}, matcher_ok \in BOOLEAN,
          lib_ok \in BOOLEAN, load_ok \in BOOLEAN :
         LET r == CharacterPreview_new(chr, NoPath, matcher_ok,
                                       IF matcher_ok THEN fonts ELSE << >>,
                                       lib_ok, load_ok)
         IN  character_preview = [tag |-> r.tag, value |-> r.value, error |-> r.error]
    /\ ret = NoCall
    /\ frame = NoFrame
    /\ trail = << >>

NextDraw == DrawCharacterPreview

SpecDraw == InitDraw /\ [][NextDraw]_vars

\* Painting on rectangles of any u16 size.
NextDrawU16 == DrawCharacterPreviewOf(U16Rects)

SpecDrawU16 == InitDraw /\ [][NextDrawU16]_vars

\* Rasterizing alone: direct render calls, of any size, on the session that
\* CharacterPreview::new builds for a character with the one candidate a.ttf.
InitRender ==
    /\ LET r == CharacterPreview_new("x", NoPath, TRUE, <<"a.ttf">>, TRUE, TRUE)
       IN  character_preview = [tag |-> r.tag, value |-> r.value, error |-> r.error]
    /\ ret = NoCall
    /\ frame = NoFrame
    /\ trail = << >>

NextRender == Render

SpecRender == InitRender /\ [][NextRender]_vars

----------------------------------------------------------------------------
(* The claims.  In every formula the session is that of a canvas whose     *)
(* construction succeeded; ret and trail say which call was the last.      *)

HasSession == character_preview.tag = "Ok"

index == session.paths_for_matching_fonts.current_index

items == session.paths_for_matching_fonts.items

SelectOps == {"select_previous_font", "select_next_font"}

\* The last entry of the trail: what the caller of the last select call saw.
LastSeen == trail[Len(trail)]

\* C1: in every reachable state of a constructed session, failed font loads
\* included, the loaded face is the face of the candidate path at the cursor.
C1_FaceIsCursorFace ==
    HasSession =>
        session.current_font = new_face(session.library, get_current_font_path(session), 0)

\* C2: a select_previous_font / select_next_font call whose face load fails
\* returns an error and leaves the loaded face exactly as it was before the call.
C2_FailedLoadKeepsFace ==
    [][(HasSession /\ ret'.op \in SelectOps /\ ret'.loads_failed > 0)
          => /\ ret'.tag = "Err"
             /\ character_preview'.value.current_font = session.current_font]_vars

C2_Witness ==
    /\ HasSession
    /\ ret.op = "select_next_font"
    /\ ret.loads_failed = 1
    /\ ret.tag = "Err"
    /\ LastSeen.index + 1 = index
    /\ session.current_font.path # get_current_font_path(session)

\* C3: at a bound (index 0 for select_previous_font, the last index for
\* select_next_font) the call is a no-op: it returns success, attempts no font
\* load and leaves the current path and the loaded face unchanged.
C3_BoundIsNoOp ==
    [][(HasSession
          /\ \/ ret'.op = "select_previous_font" /\ index = 0
             \/ ret'.op = "select_next_font" /\ index = Len(items) - 1)
          => /\ ret'.tag = "Ok"
             /\ ret'.face_loads = 0
             /\ character_preview'.value = session]_vars

\* The path CharacterPreview::new is to start at: the preferred path when the
\* candidate list holds it, the first candidate otherwise.
InitialPath(fonts, preferred) ==
    IF \E i \in 1..Len(fonts) : fonts[i] = preferred THEN preferred ELSE fonts[1]

NewOfCandidates ==
    ret.op = "new" /\ ret.args.matcher_ok /\ Len(ret.args.fonts) >= 1

\* C4 as stated: for a candidate list of at least one font CharacterPreview::new
\* succeeds, and the initial current path is the preferred path if the list
\* holds it and the first candidate otherwise.
C4_NewSucceeds ==
    NewOfCandidates =>
        /\ HasSession
        /\ get_current_font_path(session)
              = InitialPath(ret.args.fonts, ret.args.preferred_font_path)

\* C4 as amended: for a candidate list of at least one font
\* CharacterPreview::new succeeds exactly when Library::init and the load of the
\* initial face succeed, and fails with the backend's error otherwise; when it
\* succeeds the initial current path is the preferred path if the list holds it
\* and the first candidate otherwise, and with 3 candidates of which the
\* preferred candidate[1] differs from candidate[0] the cursor is at index 1
\* with has_previous_font and has_next_font both true.
C4_NewSelectsPreferred ==
    NewOfCandidates =>
        /\ HasSession <=> (ret.lib_inits = 1 /\ ret.face_loads = 1 /\ ret.loads_failed = 0)
        /\ ~HasSession => ret.error \in {"LibraryInitError", "FontLoadError"}
        /\ HasSession =>
             /\ get_current_font_path(session)
                   = InitialPath(ret.args.fonts, ret.args.preferred_font_path)
             /\ session.chr = ret.args.chr
             /\ (/\ Len(ret.args.fonts) = 3
                 /\ ret.args.preferred_font_path = ret.args.fonts[2]
                 /\ ret.args.fonts[1] # ret.args.fonts[2])
                  => /\ index = 1
                     /\ has_previous_font(session)
                     /\ has_next_font(session)

C4_Witness ==
    /\ NewOfCandidates
    /\ HasSession
    /\ Len(ret.args.fonts) = 3
    /\ ret.args.preferred_font_path = ret.args.fonts[2]
    /\ ret.args.fonts[1] # ret.args.fonts[2]
    /\ get_current_font_path(session) = ret.args.fonts[2]
    /\ has_previous_font(session)
    /\ has_next_font(session)

\* C5: when the font matcher returns an empty candidate list,
\* CharacterPreview::new fails with GlyphNotFound before any Library::init or
\* new_face call, and the canvas holds no session.
C5_EmptyListIsGlyphNotFound ==
    (ret.op = "new" /\ ret.args.matcher_ok /\ Len(ret.args.fonts) = 0) =>
        /\ character_preview.tag = "Err"
        /\ character_preview.error = "GlyphNotFound"
        /\ character_preview.value = NoSession
        /\ ret.lib_inits = 0
        /\ ret.face_loads = 0

C5_Witness ==
    /\ ret.op = "new"
    /\ ret.args.matcher_ok
    /\ ret.args.fonts = << >>
    /\ ret.args.preferred_font_path # NoPath
    /\ character_preview.error = "GlyphNotFound"

\* C6: in every reachable state of a constructed session the cursor index is
\* present and within [0, len), get_current_font_path is a path of the candidate
\* list, and no select_*_font call has taken its GlyphNotFound branch.
C6_IndexInRange ==
    HasSession =>
        /\ index # None
        /\ 0 <= index /\ index < Len(items)
        /\ \E i \in 1..Len(items) : items[i] = get_current_font_path(session)
        /\ get_current_font_path(session) = items[index + 1]
        /\ ret.error # "GlyphNotFound"

C6_Witness ==
    /\ HasSession
    /\ Len(trail) = 2
    /\ Len(items) >= 2
    /\ trail[1].op = "select_next_font" /\ trail[1].index = Len(items) - 2
    /\ trail[2].op = "select_next_font" /\ trail[2].index = Len(items) - 1
    /\ index = Len(items) - 1
    /\ get_current_font_path(session) = items[Len(items)]

C7_Predicates ==
    HasSession =>
        /\ ~has_previous_font(session) <=> index = 0
        /\ ~has_next_font(session) <=> index = Len(items) - 1

C7_Moves ==
    /\ (HasSession /\ ret'.op = "select_previous_font")
          => character_preview'.value.paths_for_matching_fonts.current_index
                = IF index = 0 THEN index ELSE index - 1
    /\ (HasSession /\ ret'.op = "select_next_font")
          => character_preview'.value.paths_for_matching_fonts.current_index
                = IF index = Len(items) - 1 THEN index ELSE index + 1

\* C7: has_previous_font is false exactly at index 0 and select_previous_font
\* leaves the index unchanged exactly there, decrementing it by one otherwise;
\* has_next_font is false exactly at the last index and select_next_font leaves
\* the index unchanged exactly there, incrementing it by one otherwise (no
\* wrap-around).
C7_BoundsNotCyclic == []C7_Predicates /\ [][C7_Moves]_vars

C7_Witness ==
    /\ HasSession
    /\ Len(trail) = 2
    /\ trail[1].op = "select_previous_font" /\ trail[1].index = 1
    /\ trail[2].op = "select_previous_font" /\ trail[2].index = 0
    /\ index = 0
    /\ ret.op = "select_previous_font"
    /\ ~has_previous_font(session)
    /\ has_next_font(session)

\* C8: from a cursor at index i > 0, select_previous_font followed by
\* select_next_font restores index i, and the face then loaded has the display
\* name of the face loaded before the two calls.
C8_RoundTrip ==
    (/\ HasSession
     /\ Len(trail) = 2
     /\ trail[1].op = "select_previous_font"
     /\ trail[2].op = "select_next_font"
     /\ trail[1].index > 0)
        => /\ index = trail[1].index
           /\ get_current_font_display_name(session) = trail[1].display_name

\* C9: a successful render(target_size) returns glyph_size = (min(target.width,
\* bitmap.width), min(target.height, bitmap.rows)), so neither dimension
\* exceeds the target's, whatever bitmap the backend returned.
C9_GlyphSizeClipped ==
    frame.shape = "rendered" =>
        LET target == frame.render_pixel_size
            bitmap == frame.backend.glyph_bitmap
            glyph  == frame.rendered_character.glyph_size
        IN  /\ glyph.width <= target.width
            /\ glyph.height <= target.height
            /\ glyph.width = IF bitmap.width <= target.width
                             THEN bitmap.width ELSE target.width
            /\ glyph.height = IF bitmap.rows <= target.height
                              THEN bitmap.rows ELSE target.height

C9_Witness ==
    /\ frame.shape = "rendered"
    /\ ret.op = "render"
    /\ frame.render_pixel_size.width > 0
    /\ frame.render_pixel_size.height > 0
    /\ frame.backend.glyph_bitmap.width > frame.render_pixel_size.width
    /\ frame.backend.glyph_bitmap.rows > frame.render_pixel_size.height
    /\ frame.rendered_character.glyph_size = frame.render_pixel_size

RenderFailed ==
    HasSession /\ frame.backend.status \in {"SetPixelSizesError", "LoadCharError"}

RenderSucceeded == HasSession /\ frame.backend.status = "Ok"

\* The filled square of the render target's size, centred in the pixel box.
CentredSquare(box, target) ==
    {<<x, y>> \in (0..box.width) \X (0..box.height) :
        /\ (box.width - target.width) \div 2 <= x
        /\ x < (box.width - target.width) \div 2 + target.width
        /\ (box.height - target.height) \div 2 <= y
        /\ y < (box.height - target.height) \div 2 + target.height}

C10_Shapes ==
    (ret.op = "draw_character_preview" /\ frame.shape # "none") =>
        /\ frame.shape = "tofu" <=> (~HasSession \/ RenderFailed)
        /\ frame.shape = "glyph" <=> RenderSucceeded
        /\ frame.shape \in {"tofu", "glyph"}
        /\ frame.shape = "tofu" =>
              /\ frame.render_pixel_size.width = frame.render_pixel_size.height
              /\ frame.dots = CentredSquare(frame.canvas_pixel_size, frame.render_pixel_size)
        /\ ret.tag = "Ok"

C10_SessionKept == character_preview' = character_preview

\* C10: a draw that passes the size guard paints the tofu, the filled square of
\* the square render target's size centred in the pixel bounding box, exactly
\* when the canvas holds no session or render fails, and paints the glyph and
\* never the tofu when render succeeds; draw returns no error and leaves the
\* session as it was.
C10_TofuExactlyOnFailure == []C10_Shapes /\ [][C10_SessionKept]_vars

C10_Witness ==
    /\ ret.op = "draw_character_preview"
    /\ RenderFailed
    /\ frame.shape = "tofu"
    /\ frame.render_pixel_size.width > 0
    /\ frame.canvas_pixel_size.height > frame.render_pixel_size.height
    /\ Cardinality(frame.dots)
          = frame.render_pixel_size.width * frame.render_pixel_size.height

PreviewFontOps == {"previous_preview_font", "next_preview_font"}

\* A session a caller can go on using: a cursor on a candidate, the backend
\* handle of its construction and a loaded face of one of the candidates.
Usable(self) ==
    /\ self.paths_for_matching_fonts.current_index \in
          0..(Len(self.paths_for_matching_fonts.items) - 1)
    /\ self.library = Library_init
    /\ \E i \in 1..Len(self.paths_for_matching_fonts.items) :
          self.current_font = new_face(self.library, self.paths_for_matching_fonts.items[i], 0)

C11_Step ==
    ret'.op \in PreviewFontOps =>
        /\ character_preview'.tag = character_preview.tag
        /\ ret'.tag = "Ok"
        /\ HasSession =>
              /\ Usable(character_preview'.value)
              /\ ret'.loads_failed > 0 =>
                    character_preview'.value.current_font = session.current_font
        /\ ~HasSession =>
              /\ character_preview' = character_preview
              /\ ret'.face_loads = 0

\* C11: previous_preview_font and next_preview_font never end or invalidate
\* the session: on a canvas with a session the session stays usable, a failed
\* font switch is dropped and leaves the prior face loaded; on a canvas whose
\* construction failed both do nothing and the canvas stays failed.
C11_PreviewFontKeepsSession == [][C11_Step]_vars

C11_Witness ==
    /\ HasSession
    /\ ret.op = "previous_preview_font"
    /\ ret.loads_failed = 1
    /\ LastSeen.index = index + 1
    /\ LastSeen.display_name = get_current_font_display_name(session)
    /\ session.current_font.path # get_current_font_path(session)

\* The coverage byte of the backend bitmap at column x of row y (0-based): the
\* rows of the buffer are pitch bytes apart.
BackendPixel(glyph_bitmap, x, y) == glyph_bitmap.buffer[y * glyph_bitmap.pitch + x + 1]

\* C12: the grid of a successful render holds, at every (x, y) inside
\* glyph_size, the coverage byte of the backend bitmap at column x of row y: the
\* copy is a clip of the bitmap, not a re-strided or shifted copy.
C12_GridIsClip ==
    frame.shape = "rendered" =>
        \A x \in 0..(frame.glyph_size.width - 1), y \in 0..(frame.glyph_size.height - 1) :
            frame.rendered_character.bitmap[y + 1][x + 1]
                = BackendPixel(frame.backend.glyph_bitmap, x, y)

\* C13: the grid of a successful render(target_size) has exactly
\* target_size.height rows of exactly target_size.width pixels each, and every
\* pixel outside the glyph extent is 0.
C13_GridIsTargetSized ==
    frame.shape = "rendered" =>
        LET grid == frame.rendered_character.bitmap
            target == frame.render_pixel_size
            glyph == frame.rendered_character.glyph_size
        IN  /\ Len(grid) = target.height
            /\ \A y \in 1..Len(grid) :
                  /\ Len(grid[y]) = target.width
                  /\ \A x \in 1..Len(grid[y]) :
                        (x - 1 >= glyph.width \/ y - 1 >= glyph.height) => grid[y][x] = 0

C13_Witness ==
    /\ frame.shape = "rendered"
    /\ frame.render_pixel_size = RenderSize_new(MaxRenderDim, MaxRenderDim)
    /\ frame.rendered_character.glyph_size = RenderSize_new(1, 1)
    /\ frame.rendered_character.bitmap[1][1] # 0
    /\ frame.rendered_character.bitmap[1][2] = 0
    /\ frame.rendered_character.bitmap[2][1] = 0
    /\ Len(frame.rendered_character.bitmap) = MaxRenderDim

\* The display name a session shows when the face of `path` is the loaded one.
NameOfPath(path) ==
    get_current_font_display_name(
        [session EXCEPT !.current_font = new_face(session.library, path, 0)])

\* The index a select call made at `i` moves the cursor to.
MovedIndex(op, i) ==
    IF op \in {"select_previous_font", "previous_preview_font"}
    THEN (IF i = 0 THEN i ELSE i - 1)
    ELSE (IF i = Len(items) - 1 THEN i ELSE i + 1)

C14_Step ==
    (HasSession /\ ret'.op \in SelectOps \cup PreviewFontOps) =>
        LET after == character_preview'.value
            at    == after.paths_for_matching_fonts.current_index
        IN  /\ at = MovedIndex(ret'.op, index)
            /\ ret'.loads_failed > 0 => after.current_font = session.current_font
            /\ (ret'.face_loads = 1 /\ ret'.loads_failed = 0)
                  => after.current_font = new_face(after.library, get_current_font_path(after), 0)

\* C14: a select call whose load fails leaves the cursor at the moved index and
\* the old face loaded; every select call whose load succeeds, the first one
\* after a failure included, stores the face of the path then at the cursor, so
\* face and cursor agree from there until the next failed load.
C14_FailedLoadThenResync ==
    /\ []((HasSession /\ ret.op \in SelectOps \cup PreviewFontOps /\ ret.loads_failed = 0)
             => session.current_font
                   = new_face(session.library, get_current_font_path(session), 0))
    /\ [][C14_Step]_vars

\* A select call found face and cursor apart (after a failed load): it moved
\* the cursor once more, its load succeeded, and they agree again.
C14_Witness ==
    /\ HasSession
    /\ ret.op = "select_previous_font"
    /\ ret.tag = "Ok"
    /\ ret.face_loads = 1
    /\ Len(trail) = 2
    /\ trail[1].op = "select_next_font"
    /\ LastSeen.index = trail[1].index + 1
    /\ LastSeen.display_name = trail[1].display_name
    /\ LastSeen.display_name # NameOfPath(items[LastSeen.index + 1])
    /\ index = LastSeen.index - 1
    /\ get_current_font_display_name(session) = NameOfPath(get_current_font_path(session))
    /\ get_current_font_display_name(session) # LastSeen.display_name

\* floor((box_dim - inner_dim) / 2)
CentringPad(box_dim, inner_dim) == (box_dim - inner_dim) \div 2

C15_GlyphDots ==
    frame.shape = "glyph" =>
        LET grid == frame.rendered_character.bitmap
            pad_x == CentringPad(frame.canvas_pixel_size.width, frame.glyph_size.width)
            pad_y == CentringPad(frame.canvas_pixel_size.height, frame.glyph_size.height)
        IN  /\ frame.glyph_size = frame.rendered_character.glyph_size
            /\ frame.x_padding = pad_x
            /\ frame.y_padding = pad_y
            /\ \A x \in 0..(frame.canvas_pixel_size.width + MaxBitmapDim),
                  y \in 0..(frame.canvas_pixel_size.height + MaxBitmapDim) :
                  <<x, y>> \in frame.dots
                     <=> /\ y - pad_y \in 0..(Len(grid) - 1)
                         /\ x - pad_x \in 0..(Len(grid[y - pad_y + 1]) - 1)
                         /\ grid[y - pad_y + 1][x - pad_x + 1] # 0
            /\ \A d \in frame.dots : d[1] >= pad_x /\ d[2] >= pad_y

C15_TofuPads ==
    /\ frame.shape = "tofu" =>
          /\ frame.x_padding
                = CentringPad(frame.canvas_pixel_size.width, frame.render_pixel_size.width)
          /\ frame.y_padding
                = CentringPad(frame.canvas_pixel_size.height, frame.render_pixel_size.height)
    /\ LET example == draw_tofu(RenderSize_new(40, 40), RenderSize_new(20, 20), NoBackend)
       IN  example.x_padding = 10 /\ example.y_padding = 10

\* C15: on a successful render a dot is plotted for exactly the pixels of the
\* rendered grid with nonzero coverage, each at (x + pad_x, y + pad_y) with
\* pad = floor((box - clipped glyph size) / 2) per axis; the tofu is padded by
\* the same formula with the render target's size (box 40x40, target 20x20:
\* both paddings 10).
C15_DotsAtCentredPixels == C15_GlyphDots /\ C15_TofuPads

\* A glyph narrower than the target, one covered and one empty pixel.
C15_Witness ==
    /\ frame.shape = "glyph"
    /\ frame.canvas_pixel_size = RenderSize_new(2, 4)
    /\ frame.glyph_size = RenderSize_new(1, 2)
    /\ frame.x_padding = 0
    /\ frame.y_padding = 1
    /\ Cardinality(frame.dots) = 1

\* C16: for every rectangle of u16 cell dimensions that passes the size guard,
\* the pixel bounding box is ((width - 4) * 2, (height - 4) * 4) as integers
\* and the render target is the square of the smaller of the two; the u16
\* subtraction and multiplication neither underflow nor overflow or wrap.
C16_BoxIsExact ==
    (/\ ret.op = "draw_character_preview"
     /\ ret.args.rect.width >= 4
     /\ ret.args.rect.height >= 4)
        => /\ frame.shape # "mul_overflow"
           /\ frame.canvas_pixel_size
                 = RenderSize_new((ret.args.rect.width - 4) * 2,
                                  (ret.args.rect.height - 4) * 4)
           /\ frame.render_pixel_size
                 = RenderSize_new(min((ret.args.rect.width - 4) * 2,
                                      (ret.args.rect.height - 4) * 4),
                                  min((ret.args.rect.width - 4) * 2,
                                      (ret.args.rect.height - 4) * 4))

C17_Step ==
    /\ (HasSession /\ ret'.op \in SelectOps \cup PreviewFontOps)
          => /\ character_preview'.tag = "Ok"
             /\ character_preview'.value.chr = session.chr
             /\ character_preview'.value.paths_for_matching_fonts.items = items
             /\ character_preview'.value.library = session.library
    /\ ret'.op = "render" => character_preview' = character_preview

\* C17: select_previous_font and select_next_font, succeeding, failing or at a
\* bound, never change the character, the candidate list or the backend
\* session handle of the construction, only cursor and face; render changes
\* none of character, candidate list, cursor and loaded face.
C17_FrameEffects == [][C17_Step]_vars

\* A render on a session whose cursor a failed select call has moved off the
\* loaded face: handle, character and list are those of the construction.
C17_Witness ==
    /\ HasSession
    /\ ret.op = "render"
    /\ frame.shape = "rendered"
    /\ Len(trail) = 2
    /\ LastSeen.op = "select_next_font"
    /\ index = LastSeen.index + 1
    /\ session.current_font.path # get_current_font_path(session)
    /\ session.library = Library_init
    /\ Len(items) = MaxFonts

\* C18: for every rectangle passing the size guard and every outcome of render
\* (or no session), the padding subtractions do not underflow (glyph_size and
\* the render target fit the pixel bounding box in both axes) and every dot
\* plotted, of the glyph or of the tofu, has 0 <= x < box width and
\* 0 <= y < box height; a rectangle narrower or shorter than 4 cells gets
\* nothing plotted.
C18_DotsInsideBox ==
    ret.op = "draw_character_preview" =>
        /\ frame.shape # "overflow"
        /\ frame.glyph_size.width <= frame.canvas_pixel_size.width
        /\ frame.glyph_size.height <= frame.canvas_pixel_size.height
        /\ frame.render_pixel_size.width <= frame.canvas_pixel_size.width
        /\ frame.render_pixel_size.height <= frame.canvas_pixel_size.height
        /\ frame.x_padding >= 0
        /\ frame.y_padding >= 0
        /\ \A d \in frame.dots :
              /\ 0 <= d[1] /\ d[1] < frame.canvas_pixel_size.width
              /\ 0 <= d[2] /\ d[2] < frame.canvas_pixel_size.height
        /\ (ret.args.rect.width < 4 \/ ret.args.rect.height < 4)
              => (frame.shape = "none" /\ frame.dots = {})
        /\ (ret.args.rect.width >= 4 /\ ret.args.rect.height >= 4)
              => frame.shape \in {"tofu", "glyph"}

\* A glyph filling the whole render target, its dots reaching the box's sides.
C18_Witness ==
    /\ ret.op = "draw_character_preview"
    /\ frame.shape = "glyph"
    /\ frame.canvas_pixel_size = RenderSize_new(2, 4)
    /\ frame.glyph_size = frame.render_pixel_size
    /\ frame.backend.glyph_bitmap.width > frame.render_pixel_size.width
    /\ <<0, 1>> \in frame.dots
    /\ <<1, 2>> \in frame.dots

\* One next_preview_font / previous_preview_font call on a constructed session
\* moves the cursor one candidate towards the end it heads for, whether or not
\* the candidate there loads, and holds it at that end.
C19_Step ==
    /\ (HasSession /\ ret'.op = "next_preview_font")
          => /\ character_preview'.tag = "Ok"
             /\ character_preview'.value.paths_for_matching_fonts.current_index
                   = IF has_next_font(session) THEN index + 1 ELSE Len(items) - 1
    /\ (HasSession /\ ret'.op = "previous_preview_font")
          => /\ character_preview'.tag = "Ok"
             /\ character_preview'.value.paths_for_matching_fonts.current_index
                   = IF has_previous_font(session) THEN index - 1 ELSE 0

\* Two select calls in a row the same way have moved the cursor two candidates
\* that way, or to the end of the list that lies nearer.
C19_TwoCalls ==
    (HasSession /\ Len(trail) = 2 /\ ret.op \in SelectOps \cup PreviewFontOps) =>
        /\ (trail[1].op = "select_next_font" /\ trail[2].op = "select_next_font")
              => index = min(trail[1].index + 2, Len(items) - 1)
        /\ (trail[1].op = "select_previous_font" /\ trail[2].op = "select_previous_font")
              => index = IF trail[1].index < 2 THEN 0 ELSE trail[1].index - 2

\* C19: a candidate that fails to load never blocks navigation: every
\* next_preview_font call below the last index moves the cursor up by one and
\* every previous_preview_font call above index 0 moves it down by one,
\* whichever loads fail, so len - 1 calls one way reach the last index
\* (has_next_font false) or index 0 from any index.
C19_FailedLoadsNeverBlock == []C19_TwoCalls /\ [][C19_Step]_vars

\* len - 1 = 2 next calls from index 0, both loads failing: the cursor is at
\* the last index with the first candidate's face still loaded.
C19_Witness ==
    /\ HasSession
    /\ ret.op = "next_preview_font"
    /\ ret.loads_failed = 1
    /\ Len(items) = 3
    /\ Len(trail) = 2
    /\ trail[1].op = "select_next_font"
    /\ trail[1].index = 0
    /\ LastSeen.index = 1
    /\ index = Len(items) - 1
    /\ ~has_next_font(session)
    /\ items[2] # items[1]
    /\ items[3] # items[1]
    /\ session.current_font.path = items[1]
    /\ LastSeen.display_name = trail[1].display_name

====
